---- MODULE Spec2Model ----
(***************************************************************************)
(* Entropic Regression (sysidentpy.model_structure_selection.ER).          *)
(*                                                                         *)
(* Three state machines over one set of variables:                         *)
(*   SpecInit  ER.__init__ and ER._validate_params, one step per statement *)
(*             group of the constructor;                                   *)
(*   SpecMI    ER.mutual_information_knn on a constructed estimator;       *)
(*   SpecSel   the forward/backward selection controller.                  *)
(***************************************************************************)
EXTENDS Integers, Sequences, FiniteSets, TLC

VARIABLES
    args,       \* keyword arguments of the ER(...) call
    pc,         \* position of the running call
    max_lag,    \* self.max_lag, Unset before line 174 has run
    rng,        \* self.rng: Unset before line 185, else draws consumed so far
    exc,        \* exception that left the call: NoExc or [kind, at]
    parent,     \* TRUE once super().__init__ has run
    p,          \* self.p, the Minkowski exponent (Inf for np.inf)
    y,          \* first batch handed to mutual_information_knn, one value a row
    y_perm,     \* second batch, row-aligned with y
    kthcol,     \* column np.argpartition put last on this input, Unset before
    ksg,        \* outcome of the latest mutual_information_knn call
    first,      \* outcome of the first call
    n_terms,    \* size of the candidate pool handed to the controller
    phase,      \* controller state: IDLE, FORWARD, BACKWARD or DONE
    pool,       \* candidate terms still active
    selected,   \* the Selected Model, in order of selection
    removed,    \* terms removed for good
    fwd_iters,  \* FORWARD iterations run
    bwd_iters   \* BACKWARD passes run

ctorVars == <<args, pc, max_lag, rng, exc, parent>>
miVars == <<p, y, y_perm, kthcol, ksg, first>>
selVars == <<n_terms, phase, pool, selected, removed, fwd_iters, bwd_iters>>

vars == <<ctorVars, miVars, selVars>>

-----------------------------------------------------------------------------
(* Python values.  Numbers are kept in halves (n = 2 * value) so that the  *)
(* floats 0.5 and 1.5 are representable: the int 1 is [ty "int", n 2], the *)
(* float 1.0 is [ty "float", n 2].  A list carries its entries (in halves) *)
(* in items.                                                               *)

PyInt(i) == [ty |-> "int", n |-> 2 * i, items |-> <<>>]
PyBool(b) == [ty |-> "bool", n |-> IF b THEN 2 ELSE 0, items |-> <<>>]
PyFloat(h) == [ty |-> "float", n |-> h, items |-> <<>>]
PyStr == [ty |-> "str", n |-> 0, items |-> <<>>]
PyList(s) == [ty |-> "list", n |-> 0, items |-> s]

\* isinstance(x, int): bool is a subclass of int
IsInt(x) == x.ty \in {"int", "bool"}
IsFloat(x) == x.ty = "float"
IsBool(x) == x.ty = "bool"
IsList(x) == x.ty = "list"

\* "%f" % x formats ints, bools and floats and raises TypeError otherwise
FormatsAsReal(x) == x.ty \in {"int", "bool", "float"}

Unset == -1
Inf == 0
NoExc == [kind |-> "none", at |-> "none"]

-----------------------------------------------------------------------------
(* Argument domains of the modelled calls.                                 *)

MaxLag == 2

LagLists ==
    { <<2>>, <<2, 4>>, <<0>>, <<4, -2>>, <<2, 3>> }

LagVals ==
    {PyInt(i) : i \in 0..MaxLag} \cup {PyFloat(3)}
        \cup {PyList(s) : s \in LagLists}

KVals == {PyInt(0), PyInt(1), PyFloat(3), PyStr}
NPermVals == {PyInt(0), PyInt(1), PyFloat(4)}
QVals == {PyFloat(0), PyFloat(1), PyFloat(2), PyFloat(3), PyInt(1)}
FlagVals == {PyBool(TRUE), PyBool(FALSE), PyInt(1)}
ElsVals == {PyBool(FALSE), PyInt(0)}
ModelTypes == {"NARMAX", "NAR", "NFIR", "ARX"}
BasisVals == {"None", "Polynomial"}

Args ==
    [ylag : LagVals, xlag : LagVals, k : KVals, n_perm : NPermVals, q : QVals,
     skip_forward : FlagVals, extended_least_squares : ElsVals,
     model_type : ModelTypes, basis_function : BasisVals]

-----------------------------------------------------------------------------
(* ER._validate_params: the checks in source order; the first that fires   *)
(* decides the exception.  Each message is built with "%f" % value, which  *)
(* itself raises TypeError when the value is not a number.                 *)

Raised(kind, at) == [kind |-> kind, at |-> at]

\* raise ValueError("... Got %f" % x)
ValueErrorF(x) ==
    IF FormatsAsReal(x) THEN Raised("ValueError", "validate")
    ELSE Raised("TypeError", "validate")

\* raise TypeError("... Got %f" % x)
TypeErrorF(x) == Raised("TypeError", "validate")

LagBelowOne(lag) == IsInt(lag) /\ lag.n < 2
LagBadType(lag) == ~(IsInt(lag) \/ IsList(lag))
KInvalid(k) == ~IsInt(k) \/ k.n < 2
NPermInvalid(n) == ~IsInt(n) \/ n.n < 2
\* the bound 1 taken as exclusive
QInvalidExclusive(q) == ~IsFloat(q) \/ q.n >= 2 \/ q.n <= 0
QInvalid(q) == ~IsFloat(q) \/ q.n > 2 \/ q.n <= 0
FlagInvalid(f) == ~IsBool(f)
ModelTypeInvalid(m) == m \notin {"NARMAX", "NAR", "NFIR"}

validate_params(a) ==
    IF LagBelowOne(a.ylag) THEN ValueErrorF(a.ylag)
    ELSE IF LagBelowOne(a.xlag) THEN ValueErrorF(a.xlag)
    ELSE IF LagBadType(a.xlag) THEN ValueErrorF(a.xlag)
    ELSE IF LagBadType(a.ylag) THEN ValueErrorF(a.ylag)
    ELSE IF KInvalid(a.k) THEN ValueErrorF(a.k)
    ELSE IF NPermInvalid(a.n_perm) THEN ValueErrorF(a.n_perm)
    ELSE IF QInvalid(a.q) THEN ValueErrorF(a.q)
    ELSE IF FlagInvalid(a.skip_forward) THEN TypeErrorF(a.skip_forward)
    ELSE IF FlagInvalid(a.extended_least_squares)
        THEN TypeErrorF(a.extended_least_squares)
    ELSE IF ModelTypeInvalid(a.model_type) THEN Raised("ValueError", "validate")
    ELSE NoExc

-----------------------------------------------------------------------------
(* _get_max_lag (inherited): the largest lag named by ylag and xlag.       *)

RECURSIVE SeqMax(_)
SeqMax(s) ==
    IF Len(s) = 1 THEN s[1]
    ELSE LET m == SeqMax(Tail(s)) IN IF s[1] > m THEN s[1] ELSE m

LagMax(lag) == IF IsList(lag) THEN SeqMax(lag.items) ELSE lag.n
get_max_lag(ylag, xlag) ==
    IF LagMax(ylag) > LagMax(xlag) THEN LagMax(ylag) ELSE LagMax(xlag)

-----------------------------------------------------------------------------
(* ER.__init__                                                             *)

NoCall == [out |-> [status |-> "none"], seen |-> Unset]

\* no selection is running
SelIdle ==
    /\ n_terms = 0
    /\ phase = "IDLE"
    /\ pool = {}
    /\ selected = <<>>
    /\ removed = {}
    /\ fwd_iters = 0
    /\ bwd_iters = 0

\* no estimate has been asked for
MIIdle ==
    /\ p = Inf
    /\ y = <<>>
    /\ y_perm = <<>>
    /\ kthcol = Unset
    /\ ksg = NoCall
    /\ first = NoCall

InitCtor ==
    /\ args \in Args
    /\ pc = "new"
    /\ max_lag = Unset
    /\ rng = Unset
    /\ exc = NoExc
    /\ parent = FALSE
    /\ MIIdle
    /\ SelIdle

\* lines 169-173: the first fields, then basis_function.degree
ReadDegree ==
    /\ pc = "new"
    /\ IF args.basis_function = "None"
         THEN pc' = "raised" /\ exc' = Raised("AttributeError", "degree")
         ELSE pc' = "degree" /\ exc' = exc
    /\ UNCHANGED <<args, max_lag, rng, parent, miVars, selVars>>

\* line 174: self.max_lag = self._get_max_lag(ylag, xlag)
DeriveMaxLag ==
    /\ pc = "degree"
    /\ max_lag' = get_max_lag(args.ylag, args.xlag)
    /\ pc' = "max_lag"
    /\ UNCHANGED <<args, rng, exc, parent, miVars, selVars>>

\* lines 175-185: the remaining fields, then check_random_state
CreateRng ==
    /\ pc = "max_lag"
    /\ rng' = 0
    /\ pc' = "rng"
    /\ UNCHANGED <<args, max_lag, exc, parent, miVars, selVars>>

\* line 186: self._validate_params()
Validate ==
    /\ pc = "rng"
    /\ exc' = validate_params(args)
    /\ pc' = IF exc' = NoExc THEN "validated" ELSE "raised"
    /\ UNCHANGED <<args, max_lag, rng, parent, miVars, selVars>>

\* lines 187-195: super().__init__(...)
ParentInit ==
    /\ pc = "validated"
    /\ parent' = TRUE
    /\ pc' = "constructed"
    /\ UNCHANGED <<args, max_lag, rng, exc, miVars, selVars>>

NextCtor == ReadDegree \/ DeriveMaxLag \/ CreateRng \/ Validate \/ ParentInit

SpecInit == InitCtor /\ [][NextCtor]_vars

-----------------------------------------------------------------------------
(* ER.mutual_information_knn.                                              *)
(*                                                                         *)
(* A batch is a sequence of N one-column rows.  The estimate reads         *)
(* distances only through comparisons (np.sort, np.argpartition, "<"), so  *)
(* for a finite exponent p a distance is kept as its p-th power, which     *)
(* orders pairs exactly as the distance does and stays an integer.         *)

MaxN == 4
MaxK == 2
MaxDraws == 1

PVals == {Inf, 1}
Vals == {0, 1}

Abs(d) == IF d < 0 THEN -d ELSE d
Max2(a, b) == IF a > b THEN a ELSE b

RECURSIVE Pow(_, _)
Pow(d, e) == IF e = 0 THEN 1 ELSE d * Pow(d, e - 1)

\* cdist(u, u, "minkowski", p=pp)[i, j] for one-column u
cdist1(u, pp, i, j) ==
    IF pp = Inf THEN Abs(u[i] - u[j]) ELSE Pow(Abs(u[i] - u[j]), pp)

\* cdist(joint_space, joint_space, "minkowski", p=pp)[i, j], joint_space the
\* column-wise concatenation of u and w
cdist2(u, w, pp, i, j) ==
    IF pp = Inf THEN Max2(Abs(u[i] - u[j]), Abs(w[i] - w[j]))
    ELSE Pow(Abs(u[i] - u[j]), pp) + Pow(Abs(w[i] - w[j]), pp)

\* an array with entries f[1..n], held as a tuple
RECURSIVE Array(_, _)
Array(f, n) == IF n = 0 THEN <<>> ELSE Append(Array(f, n - 1), f[n])

\* np.sort of one row: position r holds the r-th smallest entry
SortRow(row) ==
    Array([r \in DOMAIN row |->
             CHOOSE v \in {row[j] : j \in DOMAIN row} :
                /\ Cardinality({j \in DOMAIN row : row[j] < v}) < r
                /\ r <= Cardinality({j \in DOMAIN row : row[j] <= v})],
          Len(row))

\* smallest_distance = np.sort(cdist(joint, joint).T): one sorted row for
\* every observation
smallest_distance(u, w, pp) ==
    Array([i \in 1..Len(u) |->
             SortRow(Array([j \in 1..Len(u) |-> cdist2(u, w, pp, j, i)], Len(u)))],
          Len(u))

\* np.argpartition(a, kth): every ordering of the positions of a that puts
\* the kth entry (counted from 0) in its sorted place, nothing larger before
\* it and nothing smaller behind it.  The order inside the two parts is
\* left open by numpy.
argpartition(a, kth) ==
    {pi \in Permutations(DOMAIN a) :
        \A i \in DOMAIN a :
            /\ i < kth + 1 => a[pi[i]] <= a[pi[kth + 1]]
            /\ i > kth + 1 => a[pi[i]] >= a[pi[kth + 1]]}

\* idx = np.argpartition(smallest_distance[-1, :], k + 1)[: k + 1]; the
\* columns idx[-1] that a build may pick
LastColumns(sd, kk) ==
    {pi[kk + 1] : pi \in argpartition(sd[Len(sd)], kk + 1)}

\* epsilon = smallest_distance[:, idx][:, -1]
epsilon(sd, col) == Array([i \in 1..Len(sd) |-> sd[i][col]], Len(sd))

\* nx = np.sum(cdist(u, u) < epsilon, axis=1) - 1
neighbours(u, pp, eps) ==
    Array([i \in 1..Len(u) |->
             Cardinality({j \in 1..Len(u) : cdist1(u, pp, i, j) < eps[i]}) - 1],
          Len(u))

\* psi at a non-negative integer m: -infinity at 0, else H(m-1) - gamma.
\* Harmonic numbers are kept as integers, scaled by MaxN!.
RECURSIVE Fact(_)
Fact(m) == IF m <= 1 THEN 1 ELSE m * Fact(m - 1)

RECURSIVE Harmonic(_)
Harmonic(m) == IF m <= 0 THEN 0 ELSE Harmonic(m - 1) + Fact(MaxN) \div m

\* arr = psi(nx + 1) + psi(ny + 1), entry by entry: finite unless an
\* argument is 0; a finite entry is h / MaxN! - 2 * gamma
psi_sum(nx, ny) ==
    Array([i \in DOMAIN nx |->
             IF nx[i] + 1 <= 0 \/ ny[i] + 1 <= 0
             THEN [finite |-> FALSE, h |-> 0]
             ELSE [finite |-> TRUE, h |-> Harmonic(nx[i]) + Harmonic(ny[i])]],
          Len(nx))

RECURSIVE SumH(_, _)
SumH(arr, S) ==
    IF S = {} THEN 0
    ELSE LET i == CHOOSE j \in S : TRUE IN arr[i].h + SumH(arr, S \ {i})

\* non-finite entries counted as zero instead of dropped
nanmean_zero_filled(arr) ==
    LET F == {i \in DOMAIN arr : arr[i].finite}
    IN  [sum |-> SumH(arr, F), div |-> Len(arr)]

\* np.nanmean(arr[np.isfinite(arr)]): sum and divisor over the finite
\* entries; the mean of an empty selection is NaN
nanmean_finite(arr) ==
    LET F == {i \in DOMAIN arr : arr[i].finite}
    IN  [sum |-> SumH(arr, F), div |-> Cardinality(F)]

\* lines 274-285 with sd the sorted distances and idx[-1] = col
estimate(sd, u, w, kk, pp, col) ==
    LET eps == epsilon(sd, col)
        nx == neighbours(u, pp, eps)
        ny == neighbours(w, pp, eps)
        m == nanmean_finite(psi_sum(nx, ny))
    IN  [status |-> IF m.div = 0 THEN "nan" ELSE "value",
         eps |-> eps, nx |-> nx, ny |-> ny,
         lead |-> Harmonic(kk - 1) + Harmonic(Len(u) - 1),
         sum |-> m.sum, div |-> m.div]

RaisedCall == [status |-> "raised"]

Batches == UNION {[1..n -> Vals] : n \in 2..MaxN}

\* a constructed estimator: every check of _validate_params passed
Constructed(kk, skip) ==
    [ylag |-> PyInt(2), xlag |-> PyInt(2), k |-> PyInt(kk), n_perm |-> PyInt(1),
     q |-> PyFloat(1), skip_forward |-> PyBool(skip),
     extended_least_squares |-> PyBool(FALSE), model_type |-> "NARMAX",
     basis_function |-> "Polynomial"]

InitMI ==
    /\ \E kk \in 1..MaxK : args = Constructed(kk, FALSE)
    /\ pc = "constructed"
    /\ max_lag = get_max_lag(PyInt(2), PyInt(2))
    /\ rng = 0
    /\ exc = NoExc
    /\ parent = TRUE
    /\ p \in PVals
    /\ y \in Batches
    /\ y_perm \in {b \in Batches : Len(b) = Len(y)}
    /\ kthcol = Unset
    /\ ksg = NoCall
    /\ first = NoCall
    /\ SelIdle

K == args.k.n \div 2

\* ties among the candidate columns broken with the random source
ReturnedRandomTie(sd, col) ==
    LET C == LastColumns(sd, args.k.n \div 2)
    IN  estimate(sd, y, y_perm, args.k.n \div 2, p,
                 IF rng % 2 = 0 THEN col
                 ELSE CHOOSE c \in C : \A d \in C : c <= d)

\* the value the call hands back, given the column argpartition put last
Returned(sd, col) == estimate(sd, y, y_perm, K, p, col)

\* what the caller holds after the call: the outcome and the rng state the
\* call ran under
Outcome(out) == [out |-> out, seen |-> rng]

\* mutual_information_knn(y, y_perm)
Call ==
    /\ pc = "constructed"
    /\ \/ \* np.argpartition raises: kth out of bounds
          /\ K + 1 >= Len(y)
          /\ ksg' = Outcome(RaisedCall)
          /\ kthcol' = kthcol
       \/ /\ K + 1 < Len(y)
          /\ LET sd == smallest_distance(y, y_perm, p) IN
             \E col \in IF kthcol = Unset THEN LastColumns(sd, K) ELSE {kthcol} :
                /\ kthcol' = col
                /\ ksg' = Outcome(Returned(sd, col))
    /\ first' = IF first = NoCall THEN ksg' ELSE first
    /\ UNCHANGED <<args, pc, max_lag, rng, exc, parent, p, y, y_perm, selVars>>

\* any other operation on the estimator that consumes self.rng
Draw ==
    /\ pc = "constructed"
    /\ rng < MaxDraws
    /\ rng' = rng + 1
    /\ UNCHANGED <<args, pc, max_lag, exc, parent, miVars, selVars>>

NextMI == Call \/ Draw

SpecMI == InitMI /\ [][NextMI]_vars

-----------------------------------------------------------------------------
(* Forward/backward selection controller.  Every significance test is an   *)
(* input of the run: its verdict depends on data and on the permutation    *)
(* draws, so each test may come out either way (a NaN estimate counts as   *)
(* not significant).                                                       *)

MaxPool == 4

RECURSIVE Enumeration(_)
Enumeration(n) == IF n = 0 THEN <<>> ELSE Append(Enumeration(n - 1), n)

Elems(s) == {s[i] : i \in DOMAIN s}
Without(s, R) == LET Keep(t) == t \notin R IN SelectSeq(s, Keep)

InitSel ==
    /\ \E skip \in BOOLEAN : args = Constructed(1, skip)
    /\ pc = "constructed"
    /\ max_lag = get_max_lag(PyInt(2), PyInt(2))
    /\ rng = 0
    /\ exc = NoExc
    /\ parent = TRUE
    /\ MIIdle
    /\ n_terms \in 0..MaxPool
    /\ phase = IF args.skip_forward = PyBool(TRUE) THEN "BACKWARD" ELSE "FORWARD"
    /\ pool = IF args.skip_forward = PyBool(TRUE) THEN {} ELSE 1..n_terms
    /\ selected =
         IF args.skip_forward = PyBool(TRUE) THEN Enumeration(n_terms) ELSE <<>>
    /\ removed = {}
    /\ fwd_iters = 0
    /\ bwd_iters = 0

\* the Selected Model after the best candidate passed its test
mark_selected(sel, term) == Append(sel, term)

\* the terms that failed stay in the model
mark_removed_kept(sel, R) == sel

\* the Selected Model after a pass that found the terms of R not significant
mark_removed(sel, R) == Without(sel, R)

\* FORWARD, one iteration: the candidate with the largest estimate is tested;
\* it enters the model, or the phase ends.  An emptied pool ends the phase.
ForwardStep ==
    /\ phase = "FORWARD"
    /\ fwd_iters' = fwd_iters + 1
    /\ \/ /\ pool = {}
          /\ phase' = "BACKWARD"
          /\ UNCHANGED <<pool, selected>>
       \/ \E best \in pool :
            \/ /\ selected' = mark_selected(selected, best)
               /\ pool' = pool \ {best}
               /\ phase' = IF pool' = {} THEN "BACKWARD" ELSE "FORWARD"
            \/ /\ phase' = "BACKWARD"
               /\ UNCHANGED <<pool, selected>>
    /\ UNCHANGED <<ctorVars, miVars, n_terms, removed, bwd_iters>>

\* BACKWARD, one full pass: every selected term is tested against the
\* others; the terms that fail leave for good; a pass that removes nothing
\* ends the run.
BackwardPass ==
    /\ phase = "BACKWARD"
    /\ bwd_iters' = bwd_iters + 1
    /\ \E R \in SUBSET Elems(selected) :
         /\ selected' = mark_removed(selected, R)
         /\ removed' = removed \cup R
         /\ phase' = IF R = {} THEN "DONE" ELSE "BACKWARD"
    /\ UNCHANGED <<ctorVars, miVars, n_terms, pool, fwd_iters>>

NextSel == ForwardStep \/ BackwardPass

\* the controller runs to completion once started: a synchronous loop
SpecSel == InitSel /\ [][NextSel]_vars /\ WF_vars(NextSel)

-----------------------------------------------------------------------------
(* Properties of the constructor (checked under SpecInit).                 *)

Ended == pc \in {"raised", "constructed"}

\* a number (in halves) that is a positive integer
PositiveInteger(h) == h > 0 /\ h % 2 = 0

NumericOutside(x, lo, hi) == FormatsAsReal(x) /\ (x.n <= lo \/ x.n > hi)

\* some scalar parameter is outside its documented domain
ScalarOutsideDomain(a) ==
    \/ IsInt(a.ylag) /\ a.ylag.n < 2
    \/ IsInt(a.xlag) /\ a.xlag.n < 2
    \/ a.ylag.ty \notin {"int", "bool", "list"}
    \/ a.xlag.ty \notin {"int", "bool", "list"}
    \/ a.k.ty \notin {"int", "bool"} \/ a.k.n < 2
    \/ a.n_perm.ty \notin {"int", "bool"} \/ a.n_perm.n < 2
    \/ NumericOutside(a.q, 0, 2)
    \/ a.skip_forward.ty # "bool"
    \/ a.model_type \notin {"NARMAX", "NAR", "NFIR"}

\* C1: a call with a scalar parameter outside its documented domain always
\* ends in a validation error, whatever the other parameters are.
C1_InvalidScalarEndsInValidationError ==
    (Ended /\ ScalarOutsideDomain(args)) => (pc = "raised" /\ exc.at = "validate")

BadLagList(lag) ==
    IsList(lag) /\ \E i \in DOMAIN lag.items : ~PositiveInteger(lag.items[i])

\* C2: a call whose ylag or xlag is a list with an entry that is not a
\* positive integer fails; it never yields a constructed estimator.
C2_BadLagListRejected ==
    (Ended /\ (BadLagList(args.ylag) \/ BadLagList(args.xlag))) => pc = "raised"

\* C3: when validation raises, nothing has been computed yet: the maximum
\* lag is not derived, the random source is not created and the parent is
\* not initialised.
C3_ValidationBeforeComputation ==
    exc.at = "validate" => (max_lag = Unset /\ rng = Unset /\ ~parent)

GoodLag(lag) ==
    \/ IsInt(lag) /\ PositiveInteger(lag.n)
    \/ IsList(lag) /\ \A i \in DOMAIN lag.items : PositiveInteger(lag.items[i])

\* every parameter but q is inside its documented domain
InDomainButQ(a) ==
    /\ GoodLag(a.ylag) /\ GoodLag(a.xlag)
    /\ IsInt(a.k) /\ PositiveInteger(a.k.n)
    /\ IsInt(a.n_perm) /\ PositiveInteger(a.n_perm.n)
    /\ IsBool(a.skip_forward)
    /\ IsBool(a.extended_least_squares)
    /\ a.model_type \in {"NARMAX", "NAR", "NFIR"}
    /\ a.basis_function = "Polynomial"

\* q is a real number with 0 < q <= 1, written as an int or as a float
QRealInDomain(q) == FormatsAsReal(q) /\ q.n > 0 /\ q.n <= 2

\* C4 as stated: no validation error for any configuration inside the
\* documented domains, q = 1 written as the integer 1 included.
C4_InDomainAccepted_Original ==
    (InDomainButQ(args) /\ QRealInDomain(args.q)) => exc.at # "validate"

\* C4 as amended: no error for any configuration inside the documented
\* domains when q is a float with 0 < q <= 1 (1.0 included); the call then
\* runs to a constructed estimator.
C4_InDomainAccepted ==
    (InDomainButQ(args) /\ IsFloat(args.q) /\ QRealInDomain(args.q))
        => (exc = NoExc /\ pc # "raised")

C4_Witness ==
    /\ InDomainButQ(args)
    /\ args.q = PyFloat(2)
    /\ IsList(args.ylag)
    /\ pc = "constructed"

-----------------------------------------------------------------------------
(* Properties of mutual_information_knn (checked under SpecMI).            *)

N == Len(y)
Returns(o) == o.out.status \in {"value", "nan"}

\* C5: the call raises exactly when the batches hold at most k observations;
\* with N = k + 1 it returns a value (finite or NaN).
C5_RaisesExactlyWhenTooFewRows ==
    ksg # NoCall => (ksg.out.status = "raised" <=> N <= K)

KthNeighbourDistance(i) ==
    LET D == {cdist2(y, y_perm, p, i, j) : j \in 1..N}
        Within(d) == {j \in (1..N) \ {i} : cdist2(y, y_perm, p, i, j) <= d}
    IN  CHOOSE d \in D :
            /\ Cardinality(Within(d)) >= K
            /\ \A e \in D : Cardinality(Within(e)) >= K => d <= e

\* C8: epsilon_i is the distance from i to its k-th nearest joint neighbour,
\* whatever order the partial ordering returns and whatever the ties.
C8_EpsilonIsKthNeighbourDistance ==
    Returns(ksg) => \A i \in 1..N : ksg.out.eps[i] = KthNeighbourDistance(i)

StrictlyInside(u, i, eps) ==
    {j \in (1..N) \ {i} : cdist1(u, p, i, j) < eps[i]}

\* C9: n_x(i) and n_y(i) count the other points strictly closer than
\* epsilon_i in Y and in Z; neither is ever negative.  Stated for the calls
\* whose epsilon is the k-th neighbour distance, so that a wrong epsilon
\* (C8) is not what refutes it.
C9_CountsExcludeSelf ==
    (Returns(ksg) /\ \A i \in 1..N : ksg.out.eps[i] = KthNeighbourDistance(i)) =>
        \A i \in 1..N :
            /\ ksg.out.nx[i] = Cardinality(StrictlyInside(y, i, ksg.out.eps))
            /\ ksg.out.ny[i] = Cardinality(StrictlyInside(y_perm, i, ksg.out.eps))
            /\ ksg.out.nx[i] >= 0
            /\ ksg.out.ny[i] >= 0

\* observations whose term digamma(n_x + 1) + digamma(n_y + 1) is finite
FiniteTerms(o) == {i \in 1..N : o.nx[i] + 1 > 0 /\ o.ny[i] + 1 > 0}

RECURSIVE TermSum(_, _)
TermSum(o, S) ==
    IF S = {} THEN 0
    ELSE LET i == CHOOSE j \in S : TRUE
         IN  Harmonic(o.nx[i]) + Harmonic(o.ny[i]) + TermSum(o, S \ {i})

\* C10: the mean is taken over exactly the finite terms (sum and divisor);
\* when no term is finite the call returns NaN and does not raise.
C10_MeanOverFiniteTerms ==
    (ksg # NoCall /\ K + 1 < N) =>
        /\ Returns(ksg)
        /\ ksg.out.div = Cardinality(FiniteTerms(ksg.out))
        /\ ksg.out.sum = TermSum(ksg.out, FiniteTerms(ksg.out))
        /\ ksg.out.status = "nan" <=> FiniteTerms(ksg.out) = {}

C10_Witness ==
    /\ Returns(ksg)
    /\ FiniteTerms(ksg.out) # {}
    /\ FiniteTerms(ksg.out) # 1..N

-----------------------------------------------------------------------------
(* Properties of the selection controller (checked under SpecSel).         *)

NoDuplicates(s) == \A i, j \in DOMAIN s : s[i] = s[j] => i = j

\* C7: every run reaches DONE, each phase within n_terms + 1 iterations,
\* and the Selected Model is then a duplicate-free part of the pool.
C7_SelectionTerminates ==
    /\ <>(phase = "DONE")
    /\ [](fwd_iters <= n_terms + 1 /\ bwd_iters <= n_terms + 1)
    /\ [](phase = "DONE" =>
            Elems(selected) \subseteq 1..n_terms /\ NoDuplicates(selected))

C7_Witness ==
    /\ phase = "DONE"
    /\ fwd_iters > 1
    /\ bwd_iters > 1
    /\ selected # <<>>
    /\ removed # {}

====
